---------------------------- MODULE Spec2Model ----------------------------
(***************************************************************************)
(* A model of tabbable (src/src/index.js): the candidate collectors, the   *)
(* focusable/tabbable classifier and the tab-order sorter, evaluated over  *)
(* an explicit finite DOM (light trees, shadow roots, slots).              *)
(*                                                                         *)
(* The library keeps no state between calls (every query is a pure read of *)
(* the tree), so a behaviour is: a tree, an options object and a target    *)
(* node are given, and one of the four exported queries is applied to them.*)
(***************************************************************************)
EXTENDS Integers, Sequences, FiniteSets, TLC

VARIABLES
    dom,        \* the tree: a sequence of node records, node id = index
    cssEscape,  \* whether window.CSS.escape is a function in this environment
    opts,       \* the options object given to the query
    target,     \* the container / node given to the query (NULL when absent)
    result      \* what the query did: not yet called, returned, or threw

vars == <<dom, cssEscape, opts, target, result>>

----------------------------------------------------------------------------
(* The DOM capability surface the code consumes.                           *)

\* null / undefined: no node.
NULL == 0

\* The document node: parentNode of the top element of an attached tree,
\* and what node.ownerDocument / getRootNode() return for attached nodes.
DOC == -1

Nodes == 1..Len(dom)

IsElement(n) == n \in Nodes /\ dom[n].kind = "el"

IsShadowRoot(n) == n \in Nodes /\ dom[n].kind = "sr"

\* node.parentNode (an element, a shadow root, the document, or null)
parentNode(n) == IF n \in Nodes THEN dom[n].parent ELSE NULL

\* node.parentElement (null when the parent is a shadow root or the document)
parentElement(n) == IF IsElement(parentNode(n)) THEN parentNode(n) ELSE NULL

\* node.children, in tree order (ids of siblings ascend in tree order)
children(n) == SelectSeq([i \in 1..Len(dom) |-> i], LAMBDA i : dom[i].parent = n)

RECURSIVE FlatSeq(_)
\* [].concat(...seqs)
FlatSeq(seqs) == IF seqs = <<>> THEN <<>> ELSE Head(seqs) \o FlatSeq(Tail(seqs))

SeqToSet(s) == {s[i] : i \in 1..Len(s)}

RECURSIVE descendants(_)
\* the element descendants of n in document order (never crossing into a
\* shadow tree): what querySelectorAll('*') enumerates
descendants(n) ==
    LET ch == children(n)
    IN  FlatSeq([i \in 1..Len(ch) |-> <<ch[i]>> \o descendants(ch[i])])

\* el.querySelectorAll(selector), the selector given as the set of elements
\* that match it
querySelectorAll(n, matching) == SelectSeq(descendants(n), LAMBDA e : e \in matching)

RECURSIVE elementAncestors(_)
\* the elements a descendant combinator ("A *") can match above n
elementAncestors(n) ==
    IF parentElement(n) = NULL THEN {}
    ELSE {parentElement(n)} \cup elementAncestors(parentElement(n))

RECURSIVE getRootNode(_)
\* element.getRootNode(): the document, a shadow root, or the top of a
\* detached tree (the node itself when it has no parent)
getRootNode(n) ==
    IF n = NULL THEN NULL
    ELSE IF n = DOC THEN DOC
    ELSE IF parentNode(n) = NULL THEN n
    ELSE getRootNode(parentNode(n))

\* shadowRoot.host (undefined on anything that is not a shadow root)
hostOf(r) == IF IsShadowRoot(r) THEN dom[r].host ELSE NULL

\* the shadow root attached to element n, whatever its mode, or NULL
attachedShadow(n) ==
    IF \E r \in Nodes : dom[r].kind = "sr" /\ dom[r].host = n
    THEN CHOOSE r \in Nodes : dom[r].kind = "sr" /\ dom[r].host = n
    ELSE NULL

\* element.shadowRoot: the attached shadow root when its mode is open
shadowRootProp(n) ==
    IF attachedShadow(n) # NULL /\ dom[attachedShadow(n)].mode = "open"
    THEN attachedShadow(n) ELSE NULL

\* options.getShadowRoot(element) when the option is a function: the closed
\* root it discloses, `true` for an undisclosed shadow, or a falsy value
callGetShadowRoot(n) ==
    IF attachedShadow(n) = NULL THEN [kind |-> "falsy", root |-> NULL]
    ELSE IF dom[attachedShadow(n)].mode = "open" \/ dom[n].probe = "root"
         THEN [kind |-> "root", root |-> attachedShadow(n)]
    ELSE IF dom[n].probe = "true" THEN [kind |-> "true", root |-> NULL]
    ELSE [kind |-> "falsy", root |-> NULL]

\* node.assignedSlot: null unless the slot lives in an open shadow tree
assignedSlot(n) ==
    IF /\ dom[n].slot # NULL
       /\ IsShadowRoot(getRootNode(dom[n].slot))
       /\ dom[getRootNode(dom[n].slot)].mode = "open"
    THEN dom[n].slot ELSE NULL

\* slot.assignedElements()
assignedElements(s) == SelectSeq([i \in 1..Len(dom) |-> i], LAMBDA i : dom[i].slot = s)

\* node.ownerDocument.contains(node): node is in the document's own tree
documentContains(n) == n # NULL /\ getRootNode(n) = DOC

RECURSIVE contains(_, _)
\* a.contains(b): b is a or a descendant of a
contains(a, b) ==
    IF b = NULL \/ b = DOC THEN FALSE
    ELSE IF a = b THEN TRUE
    ELSE contains(a, parentNode(b))

\* isNaN(parseInt(node.getAttribute('tabindex'), 10))
tabindexIsNaN(n) == dom[n].tabindexAttr # "int"

\* parseInt(node.getAttribute('tabindex'), 10), when it is a number
tabindexParsed(n) == dom[n].tabindexVal

\* node.isContentEditable: inherited from the nearest editing host
isContentEditable(n) ==
    dom[n].contenteditable \/ \E a \in elementAncestors(n) : dom[a].contenteditable

----------------------------------------------------------------------------
(* Building trees: the node record and the attributes the code reads.      *)

\* the largest tabindex attribute value authored in a tree
MaxTabIndex == 2

\* element.tabIndex when no integer tabindex attribute is authored
defaultTabIndex(tag) ==
    IF tag \in {"INPUT", "BUTTON", "SELECT", "TEXTAREA", "A", "IFRAME", "SUMMARY"}
    THEN 0 ELSE -1

\* an element with default attributes, rendered with a non-empty box
Element(tag, parent) ==
    [kind |-> "el", tag |-> tag, parent |-> parent, host |-> NULL, mode |-> "",
     probe |-> "falsy", slot |-> NULL, inert |-> FALSE, disabled |-> FALSE,
     tabindexAttr |-> "none", tabindexVal |-> 0, tabIndex |-> defaultTabIndex(tag),
     href |-> FALSE, controls |-> FALSE, contenteditable |-> FALSE,
     type |-> IF tag = "INPUT" THEN "text" ELSE "", checked |-> FALSE,
     name |-> "", form |-> NULL, open |-> FALSE, visibilityHidden |-> FALSE,
     zeroArea |-> FALSE, clientRects |-> TRUE]

\* a shadow root attached to `host` (its parentNode is null)
ShadowRoot(host, mode) ==
    [Element("#shadow-root", NULL) EXCEPT !.kind = "sr", !.host = host, !.mode = mode]

\* a tabindex attribute: absent, not an integer, or an integer
NoTabindex == [attr |-> "none", val |-> 0]

InvalidTabindex == [attr |-> "invalid", val |-> 0]

IntTabindex(v) == [attr |-> "int", val |-> v]

TabindexAttrs == {NoTabindex} \cup {IntTabindex(v) : v \in -1..MaxTabIndex}

\* the element with the tabindex attribute t authored: tabIndex reflects an
\* integer attribute and keeps the element's default otherwise
withTabindex(el, t) ==
    [el EXCEPT !.tabindexAttr = t.attr, !.tabindexVal = t.val,
               !.tabIndex = IF t.attr = "int" THEN t.val ELSE @]

\* a node that is not rendered (detached, display:none, unslotted): no client
\* rects and an all-zero bounding box
unrendered(el) == [el EXCEPT !.clientRects = FALSE, !.zeroArea = TRUE]

\* the bounding boxes a rendered element can have: a non-empty box, or a
\* zero-by-zero box that still has a client rect
withBox(el, zero) == [el EXCEPT !.zeroArea = zero]

----------------------------------------------------------------------------
(* Selectors (src/src/index.js lines 3-16, 349-351, 457, 604-606).         *)

\* details>summary:first-of-type
isDirectSummarySel(n) ==
    /\ dom[n].tag = "SUMMARY"
    /\ parentElement(n) # NULL
    /\ dom[parentElement(n)].tag = "DETAILS"
    /\ \A s \in Nodes : (dom[s].parent = dom[n].parent /\ dom[s].tag = "SUMMARY") => s >= n

\* :not([inert]):not([inert] *)
notInertSel(n) == ~dom[n].inert /\ \A a \in elementAncestors(n) : ~dom[a].inert

\* matches.call(node, candidateSelector)
matchesCandidateSelector(n) ==
    /\ notInertSel(n)
    /\ \/ dom[n].tag \in {"INPUT", "SELECT", "TEXTAREA", "BUTTON"}
       \/ dom[n].tag = "A" /\ dom[n].href
       \/ dom[n].tabindexAttr # "none" /\ dom[n].tag # "SLOT"
       \/ dom[n].tag \in {"AUDIO", "VIDEO"} /\ dom[n].controls
       \/ dom[n].contenteditable
       \/ isDirectSummarySel(n)
       \/ dom[n].tag = "DETAILS"

\* matches.call(node, focusableCandidateSelector)
matchesFocusableCandidateSelector(n) ==
    \/ matchesCandidateSelector(n)
    \/ dom[n].tag = "IFRAME" /\ \A a \in elementAncestors(n) : ~dom[a].inert

\* matches.call(node, 'details:not([open]) *')
underClosedDetailsSel(n) ==
    \E a \in elementAncestors(n) : dom[a].tag = "DETAILS" /\ ~dom[a].open

\* matches.call(node, 'fieldset[disabled] *')
underDisabledFieldsetSel(n) ==
    \E a \in elementAncestors(n) : dom[a].tag = "FIELDSET" /\ dom[a].disabled

----------------------------------------------------------------------------
(* Node predicates.                                                        *)

RECURSIVE isInert(_, _)
isInert(node, lookUp) ==
    IF node = NULL THEN FALSE
    ELSE \/ IsElement(node) /\ dom[node].inert
         \/ lookUp /\ isInert(parentNode(node), TRUE)

\* faulty variant: normalises whatever tabindex attribute is authored
\* (C12 must reject it)
getTabindex_IgnoresAttribute(node, isScope) ==
    IF /\ dom[node].tabIndex < 0
       /\ \/ isScope
          \/ dom[node].tag \in {"AUDIO", "VIDEO", "DETAILS"}
          \/ isContentEditable(node)
    THEN 0
    ELSE dom[node].tabIndex

getTabindex(node, isScope) ==
    IF /\ dom[node].tabIndex < 0
       /\ \/ isScope
          \/ dom[node].tag \in {"AUDIO", "VIDEO", "DETAILS"}
          \/ isContentEditable(node)
       /\ tabindexIsNaN(node)
    THEN 0
    ELSE dom[node].tabIndex

\* faulty variant: descending tab index (C3 must reject it)
sortOrderedTabbables_Descending(a, b) ==
    IF a.tabIndex = b.tabIndex
    THEN a.documentOrder - b.documentOrder
    ELSE b.tabIndex - a.tabIndex

\* the comparator's "a sorts before b"
sortOrderedTabbables(a, b) ==
    IF a.tabIndex = b.tabIndex
    THEN a.documentOrder - b.documentOrder
    ELSE a.tabIndex - b.tabIndex

isInput(node) == dom[node].tag = "INPUT"

isHiddenInput(node) == isInput(node) /\ dom[node].type = "hidden"

isDetailsWithSummary(node) ==
    /\ dom[node].tag = "DETAILS"
    /\ \E c \in SeqToSet(children(node)) : dom[c].tag = "SUMMARY"

RECURSIVE getCheckedRadio(_, _)
getCheckedRadio(nodes, form) ==
    IF nodes = <<>> THEN NULL
    ELSE IF dom[Head(nodes)].checked /\ dom[Head(nodes)].form = form
         THEN Head(nodes)
         ELSE getCheckedRadio(Tail(nodes), form)

\* whether 'input[type="radio"][name="' + name + '"]' is a selector that
\* querySelectorAll accepts (a raw double quote in the name breaks it)
rawSelectorParses(name) == name \notin {"q\"x"}

\* radioScope.querySelectorAll('input[type="radio"][name="' + name + '"]')
queryRadios(radioScope, name) ==
    querySelectorAll(radioScope,
        {r \in Nodes : dom[r].tag = "INPUT" /\ dom[r].type = "radio" /\ dom[r].name = name})

isTabbableRadio(node) ==
    IF dom[node].name = "" THEN TRUE
    ELSE LET radioScope == IF dom[node].form # NULL THEN dom[node].form
                           ELSE getRootNode(node)
             radioSet == queryRadios(radioScope, dom[node].name)
             checked == getCheckedRadio(radioSet, dom[node].form)
         IN  IF ~cssEscape /\ ~rawSelectorParses(dom[node].name)
             THEN FALSE
             ELSE checked = NULL \/ checked = node

isRadio(node) == isInput(node) /\ dom[node].type = "radio"

isNonTabbableRadio(node) == isRadio(node) /\ ~isTabbableRadio(node)

RECURSIVE isNodeAttachedLoop(_, _)
\* the while loop of isNodeAttached: climbs from host to host
isNodeAttachedLoop(attached, nodeRootHost) ==
    IF attached \/ nodeRootHost = NULL THEN attached
    ELSE LET nodeRoot == getRootNode(nodeRootHost)
             nextHost == hostOf(nodeRoot)
         IN  isNodeAttachedLoop(nextHost # NULL /\ documentContains(nextHost), nextHost)

isNodeAttached(node) ==
    LET nodeRoot == getRootNode(node)
        nodeRootHost == hostOf(nodeRoot)
    IN  IF nodeRoot # NULL /\ nodeRoot # node
        THEN isNodeAttachedLoop(
                 (nodeRootHost # NULL /\ documentContains(nodeRootHost))
                     \/ documentContains(node),
                 nodeRootHost)
        ELSE FALSE

isZeroArea(node) == dom[node].zeroArea

RECURSIVE isHiddenWalk(_)
\* the while loop of isHidden (getShadowRoot a function): the node at which
\* the walk finds a parent reporting an undisclosed shadow, or NULL
isHiddenWalk(node) ==
    IF node = NULL THEN NULL
    ELSE LET pe == parentElement(node)
             rootNode == getRootNode(node)
         IN  IF /\ pe # NULL
                /\ shadowRootProp(pe) = NULL
                /\ callGetShadowRoot(pe).kind = "true"
             THEN node
             ELSE IF assignedSlot(node) # NULL THEN isHiddenWalk(assignedSlot(node))
             ELSE IF pe = NULL /\ rootNode # DOC THEN isHiddenWalk(hostOf(rootNode))
             ELSE isHiddenWalk(pe)

\* faulty variant: a detached node is hidden under 'legacy-full' as well
\* (C7 must reject it)
isHidden_DetachedAlwaysHidden(node, options) ==
    IF dom[node].visibilityHidden THEN TRUE
    ELSE LET nodeUnderDetails == IF isDirectSummarySel(node) THEN parentElement(node)
                                 ELSE node
         IN
         IF underClosedDetailsSel(nodeUnderDetails) THEN TRUE
         ELSE IF options.displayCheck \in {"unset", "full", "legacy-full"}
         THEN IF options.getShadowRoot = "fn" /\ isHiddenWalk(node) # NULL
              THEN isZeroArea(isHiddenWalk(node))
              ELSE IF isNodeAttached(node) THEN ~dom[node].clientRects
              ELSE TRUE
         ELSE IF options.displayCheck = "non-zero-area" THEN isZeroArea(node)
         ELSE FALSE

isHidden(node, options) ==
    IF dom[node].visibilityHidden THEN TRUE
    ELSE LET nodeUnderDetails == IF isDirectSummarySel(node) THEN parentElement(node)
                                 ELSE node
         IN
         IF underClosedDetailsSel(nodeUnderDetails) THEN TRUE
         ELSE IF options.displayCheck \in {"unset", "full", "legacy-full"}
         THEN IF options.getShadowRoot = "fn" /\ isHiddenWalk(node) # NULL
              THEN isZeroArea(isHiddenWalk(node))
              ELSE IF isNodeAttached(node) THEN ~dom[node].clientRects
              ELSE options.displayCheck # "legacy-full"
         ELSE IF options.displayCheck = "non-zero-area" THEN isZeroArea(node)
         ELSE FALSE

RECURSIVE firstLegend(_)
\* the for loop of isDisabledFromFieldset: the first LEGEND among children
firstLegend(kids) ==
    IF kids = <<>> THEN NULL
    ELSE IF dom[Head(kids)].tag = "LEGEND" THEN Head(kids)
    ELSE firstLegend(Tail(kids))

RECURSIVE isDisabledFromFieldsetLoop(_, _)
\* the while loop of isDisabledFromFieldset, climbing from parentNode
isDisabledFromFieldsetLoop(node, p) ==
    IF p = NULL THEN FALSE
    ELSE IF dom[p].tag = "FIELDSET" /\ dom[p].disabled
         THEN LET child == firstLegend(children(p))
              IN  IF child # NULL
                  THEN IF underDisabledFieldsetSel(p) THEN TRUE
                       ELSE ~contains(child, node)
                  ELSE TRUE
         ELSE isDisabledFromFieldsetLoop(node, parentElement(p))

\* faulty variant: the tag test is missing, so any node under a disabled
\* fieldset is treated as disabled (C6 must reject it)
isDisabledFromFieldset_AnyTag(node) ==
    isDisabledFromFieldsetLoop(node, parentElement(node))

isDisabledFromFieldset(node) ==
    IF dom[node].tag \in {"INPUT", "BUTTON", "SELECT", "TEXTAREA"}
    THEN isDisabledFromFieldsetLoop(node, parentElement(node))
    ELSE FALSE

isNodeMatchingSelectorFocusable(options, node) ==
    ~ \/ dom[node].disabled
      \/ isInert(node, FALSE)
      \/ isHiddenInput(node)
      \/ isHidden(node, options)
      \/ isDetailsWithSummary(node)
      \/ isDisabledFromFieldset(node)

\* faulty variant: the focusable test is missing (C1 must reject it)
isNodeMatchingSelectorTabbable_SkipsFocusable(options, node) ==
    ~ \/ isNonTabbableRadio(node)
      \/ getTabindex(node, FALSE) < 0

isNodeMatchingSelectorTabbable(options, node) ==
    ~ \/ isNonTabbableRadio(node)
      \/ getTabindex(node, FALSE) < 0
      \/ ~isNodeMatchingSelectorFocusable(options, node)

\* faulty variant: the bound is off by one, -1 is admitted (C8 must reject it)
isValidShadowRootTabbable_AdmitsMinusOne(shadowHostNode) ==
    tabindexIsNaN(shadowHostNode) \/ tabindexParsed(shadowHostNode) >= -1

isValidShadowRootTabbable(shadowHostNode) ==
    tabindexIsNaN(shadowHostNode) \/ tabindexParsed(shadowHostNode) >= 0

----------------------------------------------------------------------------
(* Candidate collectors.                                                   *)

\* options.filter(element): the classifier bound to the caller's options
applyFilter(options, element) ==
    IF options.filter = "tabbable"
    THEN isNodeMatchingSelectorTabbable(options.user, element)
    ELSE isNodeMatchingSelectorFocusable(options.user, element)

\* a collected element, and a CandidateScope {scopeParent, candidates}
ElementItem(element) == [isScope |-> FALSE, node |-> element, candidates |-> <<>>]

CandidateScope(scopeParent, candidates) ==
    [isScope |-> TRUE, node |-> scopeParent, candidates |-> candidates]

\* faulty variant: the container is appended after its descendants
\* (C13 must reject it)
getCandidates_ContainerLast(el, includeContainer, options) ==
    IF isInert(el, TRUE) THEN <<>>
    ELSE LET found == querySelectorAll(el,
                          {e \in Nodes : IsElement(e) /\ matchesCandidateSelector(e)})
             candidates == IF includeContainer /\ matchesCandidateSelector(el)
                           THEN found \o <<el>>
                           ELSE found
         IN  SelectSeq(candidates, LAMBDA c : applyFilter(options, c))

getCandidates(el, includeContainer, options) ==
    IF isInert(el, TRUE) THEN <<>>
    ELSE LET found == querySelectorAll(el,
                          {e \in Nodes : IsElement(e) /\ matchesCandidateSelector(e)})
             candidates == IF includeContainer /\ matchesCandidateSelector(el)
                           THEN <<el>> \o found
                           ELSE found
         IN  SelectSeq(candidates, LAMBDA c : applyFilter(options, c))

RECURSIVE getCandidatesIteratively(_, _, _)
RECURSIVE getCandidatesIterativelyLoop(_, _, _, _)
\* the while loop over elementsToCheck; what it appends to `candidates`
getCandidatesIterativelyLoop(elementsToCheck, elements, includeContainer, options) ==
    IF elementsToCheck = <<>> THEN <<>>
    ELSE
    LET element == Head(elementsToCheck)
        rest == Tail(elementsToCheck)
    IN
    IF isInert(element, FALSE)
    THEN getCandidatesIterativelyLoop(rest, elements, includeContainer, options)
    ELSE IF dom[element].tag = "SLOT"
    THEN LET assigned == assignedElements(element)
             content == IF Len(assigned) > 0 THEN assigned ELSE children(element)
             nestedCandidates == getCandidatesIteratively(content, TRUE, options)
         IN  (IF options.flatten THEN nestedCandidates
              ELSE <<CandidateScope(element, nestedCandidates)>>)
             \o getCandidatesIterativelyLoop(rest, elements, includeContainer, options)
    ELSE
    LET validCandidate == matchesCandidateSelector(element)
        own == IF /\ validCandidate
                  /\ applyFilter(options, element)
                  /\ (includeContainer \/ element \notin SeqToSet(elements))
               THEN <<ElementItem(element)>> ELSE <<>>
        shadowRoot ==
            IF shadowRootProp(element) # NULL
            THEN [kind |-> "root", root |-> shadowRootProp(element)]
            ELSE IF options.user.getShadowRoot = "fn" THEN callGetShadowRoot(element)
            ELSE [kind |-> "falsy", root |-> NULL]
        validShadowRoot ==
            /\ ~isInert(shadowRoot.root, FALSE)
            /\ (~options.shadowRootFilter \/ isValidShadowRootTabbable(element))
    IN
    IF shadowRoot.kind # "falsy" /\ validShadowRoot
    THEN LET nestedCandidates ==
                 getCandidatesIteratively(
                     IF shadowRoot.kind = "true" THEN children(element)
                     ELSE children(shadowRoot.root),
                     TRUE, options)
         IN  own
             \o (IF options.flatten THEN nestedCandidates
                 ELSE <<CandidateScope(element, nestedCandidates)>>)
             \o getCandidatesIterativelyLoop(rest, elements, includeContainer, options)
    ELSE own \o getCandidatesIterativelyLoop(
                    children(element) \o rest, elements, includeContainer, options)

getCandidatesIteratively(elements, includeContainer, options) ==
    getCandidatesIterativelyLoop(elements, elements, includeContainer, options)

----------------------------------------------------------------------------
(* Tab-order sorter.                                                       *)

RECURSIVE insertSorted(_, _)
\* Array.prototype.sort with sortOrderedTabbables (a stable sort)
insertSorted(x, sorted) ==
    IF sorted = <<>> THEN <<x>>
    ELSE IF sortOrderedTabbables(x, Head(sorted)) < 0 THEN <<x>> \o sorted
    ELSE <<Head(sorted)>> \o insertSorted(x, Tail(sorted))

RECURSIVE sortSeq(_)
sortSeq(xs) ==
    IF xs = <<>> THEN <<>>
    ELSE insertSorted(xs[Len(xs)], sortSeq(SubSeq(xs, 1, Len(xs) - 1)))

RECURSIVE sortByOrder(_)
\* the sortable record the forEach builds for candidates[i]
\* (content is always a list here: one element, or a scope's sorted elements)
sortable(candidates, i) ==
    LET item == candidates[i]
    IN  [documentOrder |-> i - 1,
         tabIndex |-> getTabindex(item.node, item.isScope),
         isScope |-> item.isScope,
         content |-> IF item.isScope THEN sortByOrder(item.candidates)
                     ELSE <<item.node>>]

\* the items the forEach puts in orderedTabbables, in input order
orderedTabbables(candidates) ==
    SelectSeq([i \in 1..Len(candidates) |-> sortable(candidates, i)],
              LAMBDA r : r.tabIndex # 0)

\* faulty variant: the sorted content of a zero-tabindex scope is not pushed
\* (C14 must reject it)
regularTabbables_DropsScopes(candidates) ==
    FlatSeq([i \in 1..Len(candidates) |->
                IF sortable(candidates, i).tabIndex = 0 /\ ~candidates[i].isScope
                THEN sortable(candidates, i).content ELSE <<>>])

\* the elements the forEach pushes to regularTabbables, in input order
regularTabbables(candidates) ==
    FlatSeq([i \in 1..Len(candidates) |->
                IF sortable(candidates, i).tabIndex = 0
                THEN sortable(candidates, i).content ELSE <<>>])

sortByOrder(candidates) ==
    LET sorted == sortSeq(orderedTabbables(candidates))
    IN  FlatSeq([i \in 1..Len(sorted) |-> sorted[i].content])
        \o regularTabbables(candidates)

----------------------------------------------------------------------------
(* The exported queries.                                                   *)

\* faulty variant: the container is always included (C2 must reject it)
tabbable_AlwaysIncludesContainer(el, options) ==
    IF options.getShadowRoot # "off"
    THEN sortByOrder(getCandidatesIteratively(<<el>>, TRUE,
             [filter |-> "tabbable", flatten |-> FALSE, user |-> options,
              shadowRootFilter |-> TRUE]))
    ELSE sortByOrder(
             LET flat == getCandidates(el, TRUE,
                             [filter |-> "tabbable", user |-> options])
             IN  [i \in 1..Len(flat) |-> ElementItem(flat[i])])

\* the `candidates` tabbable hands to sortByOrder
tabbableCandidates(el, options) ==
    IF options.getShadowRoot # "off"
    THEN getCandidatesIteratively(<<el>>, options.includeContainer,
             [filter |-> "tabbable", flatten |-> FALSE, user |-> options,
              shadowRootFilter |-> TRUE])
    ELSE LET flat == getCandidates(el, options.includeContainer,
                         [filter |-> "tabbable", user |-> options])
         IN  [i \in 1..Len(flat) |-> ElementItem(flat[i])]

tabbable(el, options) == sortByOrder(tabbableCandidates(el, options))

\* with flatten set every pushed item is an element: the list of them
flattened(items) == [i \in 1..Len(items) |-> items[i].node]

focusable(el, options) ==
    IF options.getShadowRoot # "off"
    THEN flattened(getCandidatesIteratively(<<el>>, options.includeContainer,
             [filter |-> "focusable", flatten |-> TRUE, user |-> options,
              shadowRootFilter |-> FALSE]))
    ELSE getCandidates(el, options.includeContainer,
             [filter |-> "focusable", user |-> options])

\* a call's outcome: a thrown error, a returned boolean, a returned list
Thrown(op) == [op |-> op, kind |-> "throw", bool |-> FALSE, list |-> <<>>]

ReturnedBool(op, b) == [op |-> op, kind |-> "return", bool |-> b, list |-> <<>>]

ReturnedList(op, l) == [op |-> op, kind |-> "return", bool |-> FALSE, list |-> l]

NotCalled == [op |-> "none", kind |-> "none", bool |-> FALSE, list |-> <<>>]

isTabbable(node, options) ==
    IF node = NULL THEN Thrown("isTabbable")
    ELSE IF ~matchesCandidateSelector(node) THEN ReturnedBool("isTabbable", FALSE)
    ELSE ReturnedBool("isTabbable", isNodeMatchingSelectorTabbable(options, node))

\* faulty variant: no node is answered with false instead of an error
\* (C9 must reject it)
isFocusable_NoNodeIsFalse(node, options) ==
    IF node = NULL THEN ReturnedBool("isFocusable", FALSE)
    ELSE IF ~matchesFocusableCandidateSelector(node)
         THEN ReturnedBool("isFocusable", FALSE)
    ELSE ReturnedBool("isFocusable", isNodeMatchingSelectorFocusable(options, node))

isFocusable(node, options) ==
    IF node = NULL THEN Thrown("isFocusable")
    ELSE IF ~matchesFocusableCandidateSelector(node)
         THEN ReturnedBool("isFocusable", FALSE)
    ELSE ReturnedBool("isFocusable", isNodeMatchingSelectorFocusable(options, node))

----------------------------------------------------------------------------
(* One query applied to the given tree, options and node.                  *)

\* tabbable(target, opts); a null container is dereferenced (a TypeError)
Tabbable ==
    /\ result.op = "none"
    /\ result' = IF target = NULL THEN Thrown("tabbable")
                 ELSE ReturnedList("tabbable", tabbable(target, opts))
    /\ UNCHANGED <<dom, cssEscape, opts, target>>

Focusable ==
    /\ result.op = "none"
    /\ result' = IF target = NULL THEN Thrown("focusable")
                 ELSE ReturnedList("focusable", focusable(target, opts))
    /\ UNCHANGED <<dom, cssEscape, opts, target>>

IsTabbable ==
    /\ result.op = "none"
    /\ result' = isTabbable(target, opts)
    /\ UNCHANGED <<dom, cssEscape, opts, target>>

IsFocusable ==
    /\ result.op = "none"
    /\ result' = isFocusable(target, opts)
    /\ UNCHANGED <<dom, cssEscape, opts, target>>

----------------------------------------------------------------------------
(* The trees, options and targets the queries are applied to.              *)

Options(includeContainer, displayCheck, getShadowRoot) ==
    [includeContainer |-> includeContainer, displayCheck |-> displayCheck,
     getShadowRoot |-> getShadowRoot]

\* getShadowRoot: falsy, true, or a function
GetShadowRootSettings == {"off", "true", "fn"}

DisplayChecks == {"unset", "full", "legacy-full", "non-zero-area", "none"}

\* an attached shadow root as the code can learn of it: open; closed and
\* returned by getShadowRoot; closed and reported as `true` (undisclosed)
ShadowKinds ==
    {[mode |-> "open", probe |-> "falsy"],
     [mode |-> "closed", probe |-> "root"],
     [mode |-> "closed", probe |-> "true"]}

\* A container with a button, a shadow host and a button after it; the
\* host's shadow tree holds a button and a slot; the host's light child is
\* assigned to the slot (rendered) or left unslotted (not rendered).
\*   1 DIV > [ 2 BUTTON, 3 X-HOST > [ #4 > [5 BUTTON, 6 SLOT], 7 BUTTON ], 8 BUTTON ]
ShadowTree(tA, tH, hs, tB, tS, slotted, tL, inertAt) ==
    LET light == withTabindex(Element("BUTTON", 3), tL)
        base ==
          << Element("DIV", DOC),
             withTabindex(Element("BUTTON", 1), tA),
             [withTabindex(Element("X-HOST", 1), tH) EXCEPT !.probe = hs.probe],
             ShadowRoot(3, hs.mode),
             withTabindex(Element("BUTTON", 4), tB),
             withTabindex(Element("SLOT", 4), tS),
             IF slotted THEN [light EXCEPT !.slot = 6] ELSE unrendered(light),
             Element("BUTTON", 1) >>
    IN  [i \in 1..8 |-> IF i = inertAt THEN [base[i] EXCEPT !.inert = TRUE]
                        ELSE base[i]]

\* shadow trees with authored tab indexes on every level
ShadowOrderTrees ==
    {ShadowTree(tA, tH, hs, tB, tS, slotted, tL, NULL) :
        tA \in TabindexAttrs,
        tH \in {NoTabindex, IntTabindex(-1), IntTabindex(0), IntTabindex(1)},
        hs \in ShadowKinds,
        tB \in TabindexAttrs \ {IntTabindex(-1)},
        tS \in {NoTabindex, IntTabindex(-1)},
        slotted \in BOOLEAN,
        tL \in {NoTabindex, IntTabindex(1)}}

\* shadow trees with one inert element
ShadowInertTrees ==
    {ShadowTree(NoTabindex, NoTabindex, hs, NoTabindex, NoTabindex, slotted,
                NoTabindex, inertAt) :
        hs \in ShadowKinds, slotted \in BOOLEAN, inertAt \in {1, 2, 3, 5, 7}}

InitShadow ==
    /\ cssEscape = TRUE
    /\ result = NotCalled
    /\ \/ /\ dom \in ShadowOrderTrees
          /\ opts \in {Options(inc, "full", gsr) :
                          inc \in BOOLEAN, gsr \in GetShadowRootSettings}
          /\ target \in {1, 3}
       \/ /\ dom \in ShadowInertTrees
          /\ opts \in {Options(inc, "full", gsr) :
                          inc \in BOOLEAN, gsr \in GetShadowRootSettings}
          /\ target \in {1, 2, 3, 5, 7, 8}

\* One element of every shape the selectors and the classifier tell apart,
\* under a container, with a child (a SUMMARY for the DETAILS-with-summary
\* delegate).   1 DIV > [ 2 <shape> > [ 3 SPAN | SUMMARY ] ]
ElementShapes ==
    {Element("INPUT", 1),
     [Element("INPUT", 1) EXCEPT !.type = "hidden"],
     [Element("INPUT", 1) EXCEPT !.disabled = TRUE],
     Element("BUTTON", 1),
     [Element("A", 1) EXCEPT !.href = TRUE],
     Element("A", 1),
     Element("DIV", 1),
     Element("IFRAME", 1)}

\* shapes whose default tabIndex differs between browsers (-1 or 0)
BrowserDependentShapes ==
    {[Element("DIV", 1) EXCEPT !.contenteditable = TRUE],
     [Element("AUDIO", 1) EXCEPT !.controls = TRUE],
     Element("AUDIO", 1),
     [Element("DETAILS", 1) EXCEPT !.open = TRUE]}

ShapedElements ==
    {withTabindex(e, t) : e \in ElementShapes, t \in TabindexAttrs \cup {InvalidTabindex}}
    \cup {withTabindex([e EXCEPT !.tabIndex = d], t) :
              e \in BrowserDependentShapes, d \in {-1, 0},
              t \in TabindexAttrs \cup {InvalidTabindex}}

ShapeTree(shaped, childTag, inertAt) ==
    LET base == << Element("DIV", DOC), shaped, Element(childTag, 2) >>
    IN  [i \in 1..3 |-> IF i = inertAt THEN [base[i] EXCEPT !.inert = TRUE]
                        ELSE base[i]]

ShapeTrees ==
    {ShapeTree(e, c, inertAt) :
        e \in ShapedElements, c \in {"SPAN", "SUMMARY"}, inertAt \in {NULL, 1, 2}}

InitShapes ==
    /\ cssEscape = TRUE
    /\ result = NotCalled
    /\ dom \in {d \in ShapeTrees : d[3].tag = "SUMMARY" => d[2].tag = "DETAILS"}
    /\ opts \in {Options(inc, dc, gsr) :
                    inc \in BOOLEAN, dc \in {"unset", "none"},
                    gsr \in GetShadowRootSettings}
    /\ target \in {NULL, 1, 2, 3}

\* A tree attached to the document or detached from it, with a button in the
\* light tree, a button in a nested shadow tree, a button below a slotted
\* light child of the outer host, and a button in a DETAILS.
\*   1 DIV > [ 2 BUTTON,
\*             3 X-HOST > [ #4 > [ 5 X-INNER > [ #6 > [7 BUTTON] ], 8 SLOT ],
\*                          9 DIV (slot 8) > [10 BUTTON] ],
\*             11 DETAILS > [12 BUTTON] ]
DisplayTree(attached, hs, hidden2, box2, box7, zero9, zero10, open) ==
    LET render(el, rendered, zero) ==
            IF attached /\ rendered THEN withBox(el, zero) ELSE unrendered(el)
    IN  << render(Element("DIV", IF attached THEN DOC ELSE NULL), TRUE, FALSE),
           [render(Element("BUTTON", 1), box2 # "none", box2 = "zero")
               EXCEPT !.visibilityHidden = hidden2],
           [render(Element("X-HOST", 1), TRUE, FALSE) EXCEPT !.probe = hs.probe],
           ShadowRoot(3, hs.mode),
           render(Element("X-INNER", 4), TRUE, FALSE),
           ShadowRoot(5, "open"),
           render(Element("BUTTON", 6), box7 # "none", box7 = "zero"),
           unrendered(Element("SLOT", 4)),
           [render(Element("DIV", 3), TRUE, zero9) EXCEPT !.slot = 8],
           render(Element("BUTTON", 9), TRUE, zero10),
           [render(Element("DETAILS", 1), TRUE, FALSE) EXCEPT !.open = open],
           render(Element("BUTTON", 11), open, FALSE) >>

Boxes == {"box", "zero", "none"}

DisplayTrees ==
    {DisplayTree(TRUE, hs, hidden2, box2, box7, zero9, zero10, open) :
        hs \in ShadowKinds, hidden2 \in BOOLEAN, box2 \in Boxes,
        box7 \in {"box", "none"}, zero9 \in BOOLEAN, zero10 \in BOOLEAN,
        open \in BOOLEAN}
    \cup
    {DisplayTree(FALSE, hs, hidden2, "none", "none", TRUE, TRUE, open) :
        hs \in ShadowKinds, hidden2 \in BOOLEAN, open \in BOOLEAN}

InitDisplay ==
    /\ cssEscape = TRUE
    /\ result = NotCalled
    /\ dom \in DisplayTrees
    /\ opts \in {Options(FALSE, dc, gsr) :
                    dc \in DisplayChecks, gsr \in GetShadowRootSettings}
    /\ target \in {2, 7, 10, 12}

\* Radio buttons in and around a form, and one in a shadow tree. Radio 5
\* lies outside the FORM element and is owned by the form through its form
\* attribute, or by no form.
\*   1 DIV > [ 2 FORM > [3 radio, 4 radio], 5 radio, 6 radio,
\*             7 X-HOST > [ #8 > [9 radio] ] ]
Radio(parent, form, name, checked) ==
    [Element("INPUT", parent) EXCEPT !.type = "radio", !.form = form,
                                     !.name = name, !.checked = checked]

RadioTree(t3, c3, n4, c4, f5, n5, c5, n6, c6, c9) ==
    << Element("DIV", DOC),
       Element("FORM", 1),
       withTabindex(Radio(2, 2, "r", c3), t3),
       Radio(2, 2, n4, c4),
       Radio(1, f5, n5, c5),
       Radio(1, NULL, n6, c6),
       Element("X-HOST", 1),
       ShadowRoot(7, "open"),
       Radio(8, NULL, "r", c9) >>

RadioNames == {"", "r", "s"}

\* the browser keeps at most one radio checked in a group (same form owner,
\* same tree, same non-empty name)
oneCheckedPerGroup(d) ==
    \A a, b \in {3, 4, 5, 6} :
        (/\ a # b
         /\ d[a].name # ""
         /\ d[a].name = d[b].name
         /\ d[a].form = d[b].form) => ~(d[a].checked /\ d[b].checked)

RadioTrees ==
    {d \in {RadioTree(t3, c3, n4, c4, f5, n5, c5, n6, c6, c9) :
               t3 \in {NoTabindex, IntTabindex(-1)}, c3 \in BOOLEAN,
               n4 \in RadioNames, c4 \in BOOLEAN,
               f5 \in {NULL, 2}, n5 \in RadioNames, c5 \in BOOLEAN,
               n6 \in RadioNames \cup {"q\"x"}, c6 \in BOOLEAN,
               c9 \in BOOLEAN} : oneCheckedPerGroup(d)}

InitRadio ==
    /\ cssEscape \in BOOLEAN
    /\ result = NotCalled
    /\ dom \in RadioTrees
    /\ opts \in {Options(FALSE, "full", gsr) : gsr \in {"off", "true"}}
    /\ target = 1

\* Two fieldsets, legends, and form controls at every depth.
\*   1 DIV > [ 2 FIELDSET > [ 3 LEGEND|DIV, 4 FIELDSET (in 2 or in 3) >
\*             [ 5 LEGEND|DIV ], 6 control (in 2, 3, 4 or 5), 7 LEGEND > [8 INPUT] ] ]
FieldsetTree(d2, tag3, p4, d4, tag5, control, p6) ==
    << Element("DIV", DOC),
       [Element("FIELDSET", 1) EXCEPT !.disabled = d2],
       Element(tag3, 2),
       [Element("FIELDSET", p4) EXCEPT !.disabled = d4],
       Element(tag5, 4),
       [control EXCEPT !.parent = p6],
       Element("LEGEND", 2),
       Element("INPUT", 7) >>

FieldsetTrees ==
    {FieldsetTree(d2, tag3, p4, d4, tag5, control, p6) :
        d2 \in BOOLEAN, tag3 \in {"LEGEND", "DIV"}, d4 \in BOOLEAN,
        tag5 \in {"LEGEND", "DIV"},
        control \in {Element("INPUT", 1), Element("BUTTON", 1),
                     [Element("A", 1) EXCEPT !.href = TRUE]},
        p4 \in {2, 3}, p6 \in {2, 3, 4, 5}}

InitFieldset ==
    /\ cssEscape = TRUE
    /\ result = NotCalled
    /\ dom \in {d \in FieldsetTrees : ~(d[4].parent = 2 /\ d[6].parent = 3)}
    /\ opts \in {Options(FALSE, "full", gsr) : gsr \in {"off", "true"}}
    /\ target \in {1, 6, 8}

\* A tree without shadow roots and slots: a container with tab stops on three
\* levels, an inner container that can carry a tabindex itself, a closed
\* DETAILS with its summary, and one inert element.
\*   1 DIV > [ 2 BUTTON, 3 DIV > [ 4 INPUT, 5 DETAILS > [6 SUMMARY, 7 BUTTON] ],
\*             8 A[href] ]
LightTree(tA, tH, tB, box4, inertAt) ==
    LET base ==
          << Element("DIV", DOC),
             withTabindex(Element("BUTTON", 1), tA),
             withTabindex(Element("DIV", 1), tH),
             withTabindex(
                 IF box4 = "none" THEN unrendered(Element("INPUT", 3))
                 ELSE withBox(Element("INPUT", 3), box4 = "zero"), tB),
             Element("DETAILS", 3),
             Element("SUMMARY", 5),
             unrendered(Element("BUTTON", 5)),
             [Element("A", 1) EXCEPT !.href = TRUE] >>
    IN  [i \in 1..8 |-> IF i = inertAt THEN [base[i] EXCEPT !.inert = TRUE]
                        ELSE base[i]]

LightTrees ==
    {LightTree(tA, tH, tB, box4, inertAt) :
        tA \in {NoTabindex} \cup {IntTabindex(v) : v \in 1..MaxTabIndex},
        tH \in {NoTabindex, IntTabindex(-1), IntTabindex(1)},
        tB \in {NoTabindex, IntTabindex(1)},
        box4 \in Boxes,
        inertAt \in {NULL, 1, 3, 4}}

InitLight ==
    /\ cssEscape = TRUE
    /\ result = NotCalled
    /\ dom \in LightTrees
    /\ opts \in {Options(inc, dc, gsr) :
                    inc \in BOOLEAN, dc \in DisplayChecks, gsr \in {"off", "true"}}
    /\ target \in {1, 3, 4}

Init ==
    InitShapes \/ InitShadow \/ InitDisplay \/ InitRadio \/ InitFieldset \/ InitLight

Next == Tabbable \/ Focusable \/ IsTabbable \/ IsFocusable

Spec == Init /\ [][Next]_vars

SpecShadow == InitShadow /\ [][Next]_vars

SpecShapes == InitShapes /\ [][Next]_vars

SpecDisplay == InitDisplay /\ [][Next]_vars

SpecRadio == InitRadio /\ [][Next]_vars

SpecFieldset == InitFieldset /\ [][Next]_vars

SpecLight == InitLight /\ [][Next]_vars

----------------------------------------------------------------------------
(* Notions the claims are stated in, defined on the tree itself.           *)

\* node ids are assigned in document order (a shadow tree right after its
\* host, before the host's light children), so an id is a document position
documentPosition(n) == n

RECURSIVE shadowIncludingDescendants(_)
\* every element below n, through light children and attached shadow trees
shadowIncludingDescendants(n) ==
    LET below == SeqToSet(children(n)) \cup
                 (IF IsElement(n) /\ attachedShadow(n) # NULL
                  THEN SeqToSet(children(attachedShadow(n))) ELSE {})
    IN  below \cup UNION {shadowIncludingDescendants(c) : c \in below}

RECURSIVE inertInFlatTree(_)
\* n is inert itself, or lies in the light tree or the shadow tree of an
\* inert element
inertInFlatTree(n) ==
    /\ n \in Nodes
    /\ \/ dom[n].inert
       \/ IF IsShadowRoot(n) THEN inertInFlatTree(dom[n].host)
          ELSE inertInFlatTree(parentNode(n))

\* the shadow root of host h that the collector can enter under `options`
disclosedShadowRoot(h, options) ==
    IF shadowRootProp(h) # NULL THEN shadowRootProp(h)
    ELSE IF options.getShadowRoot = "fn" /\ callGetShadowRoot(h).kind = "root"
         THEN callGetShadowRoot(h).root
    ELSE NULL

\* h carries an authored tabindex attribute with a negative integer value
hasExplicitNegativeTabindex(h) == dom[h].tabindexAttr = "int" /\ dom[h].tabindexVal < 0

\* the elements of the tree rooted at shadow root r
shadowTreeElements(r) == {e \in Nodes : IsElement(e) /\ getRootNode(e) = r}

\* a call of `op` has returned
Returned(op) == result.op = op /\ result.kind = "return"

ResultSet == SeqToSet(result.list)

----------------------------------------------------------------------------
(* C1 *)

\* C1: for every node and every options value (any displayCheck mode, any
\* getShadowRoot setting), if isTabbable(N, O) returns true then
\* isFocusable(N, O) returns true.
C1_TabbableImpliesFocusable ==
    (Returned("isTabbable") /\ result.bool)
        => isFocusable(target, opts) = ReturnedBool("isFocusable", TRUE)

\* isTabbable returned true for an element whose negative default tabIndex
\* was normalised to 0
C1_Witness ==
    /\ Returned("isTabbable")
    /\ result.bool
    /\ dom[target].tabIndex < 0

----------------------------------------------------------------------------
(* C9 *)

\* C9: isTabbable and isFocusable raise an error, and return no boolean,
\* whenever the node is null or absent, for every options value; for every
\* non-null node (an element) they return a boolean without raising.
C9_ThrowsExactlyOnNoNode ==
    result.op \in {"isTabbable", "isFocusable"}
        => /\ target = NULL => result.kind = "throw"
           /\ target # NULL => result.kind = "return"

\* isFocusable was called without a node and threw
C9_Witness ==
    /\ result.op = "isFocusable"
    /\ target = NULL
    /\ result.kind = "throw"

----------------------------------------------------------------------------
(* C2 *)

\* a shadow host with an explicit negative tabindex at or below container c
negativeTabindexHostIn(c) ==
    \E h \in {c} \cup shadowIncludingDescendants(c) :
        attachedShadow(h) # NULL /\ hasExplicitNegativeTabindex(h)

\* C2: with the same container and options, every element of tabbable(C, O)
\* is an element of focusable(C, O), provided no shadow host with an
\* explicit negative tabindex lies at or below C; with shadow support off
\* (flat collector) and on (iterative collector).
C2_TabbableWithinFocusable ==
    (Returned("tabbable") /\ ~negativeTabindexHostIn(target))
        => ResultSet \subseteq SeqToSet(focusable(target, opts))

\* tabbable returned elements from the light tree and from a shadow tree
C2_Witness ==
    /\ Returned("tabbable")
    /\ opts.getShadowRoot # "off"
    /\ ~negativeTabindexHostIn(target)
    /\ \E e \in ResultSet : IsShadowRoot(getRootNode(e))
    /\ \E e \in ResultSet : getRootNode(e) = DOC

----------------------------------------------------------------------------
(* C3 *)

\* the order the claim describes: positive tab indexes first, ascending, ties
\* by document position; then the zero tab indexes in document order
inClaimedTabOrder(list) ==
    \A i, j \in 1..Len(list) : i < j =>
        LET a == list[i]
            b == list[j]
            ta == getTabindex(a, FALSE)
            tb == getTabindex(b, FALSE)
        IN  /\ (ta > 0 /\ tb > 0) =>
                 (ta < tb \/ (ta = tb /\ documentPosition(a) < documentPosition(b)))
            /\ ~(ta <= 0 /\ tb > 0)
            /\ (ta = 0 /\ tb = 0) => documentPosition(a) < documentPosition(b)

\* C3 as stated: for every container, with or without shadow scopes and
\* slots below it, tabbable(C) lists the positive-tabindex elements first
\* (ascending tab index, ties by document position) and then the
\* zero/implicit-tabindex elements in document order.
C3_Original == Returned("tabbable") => inClaimedTabOrder(result.list)

\* the collector builds no scope: shadow support is off, or nothing at or
\* below the container is a slot or hosts a shadow root
noScopeBelow(c, options) ==
    \/ options.getShadowRoot = "off"
    \/ \A e \in {c} \cup shadowIncludingDescendants(c) :
           dom[e].tag # "SLOT" /\ attachedShadow(e) = NULL

\* C3 amended: when the collector builds no scope (shadow support off, or no
\* slot and no shadow host at or below C), tabbable(C) lists the
\* positive-tabindex elements first (ascending tab index, ties by document
\* position) and then the zero/implicit-tabindex elements in document order.
C3_FlatTabOrder ==
    (Returned("tabbable") /\ noScopeBelow(target, opts))
        => inClaimedTabOrder(result.list)

\* a scope-free call whose result moved a later element ahead of an earlier
\* one because of its tab index, and ends with a zero-tabindex element
C3_Witness ==
    /\ Returned("tabbable")
    /\ noScopeBelow(target, opts)
    /\ Len(result.list) >= 3
    /\ \E i, j \in 1..Len(result.list) :
          /\ i < j
          /\ documentPosition(result.list[i]) > documentPosition(result.list[j])
          /\ getTabindex(result.list[j], FALSE) > 0
    /\ getTabindex(result.list[Len(result.list)], FALSE) = 0

----------------------------------------------------------------------------
(* C4 *)

\* C4: no element that is inert, or that lies in the light tree or in a
\* shadow tree below an inert element, appears in tabbable(C, O) or
\* focusable(C, O), whatever the options and wherever C is relative to the
\* inert element.
C4_InertNeverReturned ==
    (Returned("tabbable") \/ Returned("focusable"))
        => \A e \in ResultSet : ~inertInFlatTree(e)

----------------------------------------------------------------------------
(* C8 *)

\* the collector walking down from container c arrives at host h: h is c or
\* a light descendant of c, nothing on the way is inert, a slot, or a host
\* whose shadow tree the walk enters instead
RECURSIVE walkReaches(_, _, _)
walkReaches(c, h, options) ==
    /\ h # NULL
    /\ ~dom[h].inert
    /\ \/ h = c
       \/ /\ parentElement(h) # NULL
          /\ dom[parentElement(h)].tag # "SLOT"
          /\ disclosedShadowRoot(parentElement(h), options) = NULL
          /\ ~(options.getShadowRoot = "fn"
               /\ callGetShadowRoot(parentElement(h)).kind = "true")
          /\ walkReaches(c, parentElement(h), options)

\* hosts with a disclosed shadow root and an explicit negative tabindex that
\* the walk from the target arrives at
blockedHosts ==
    {h \in Nodes : /\ IsElement(h)
                   /\ disclosedShadowRoot(h, opts) # NULL
                   /\ hasExplicitNegativeTabindex(h)
                   /\ walkReaches(target, h, opts)}

\* C8: with shadow support on, for a host H with a disclosed shadow root and
\* an explicit negative tabindex that the container holds, tabbable(C, O)
\* contains no element of H's shadow tree, and focusable(C, O) contains every
\* focusable candidate among the children of H's shadow root.
C8_NegativeHostBlocksTabbable ==
    /\ (Returned("tabbable") /\ opts.getShadowRoot # "off") =>
           \A h \in blockedHosts :
               ResultSet \cap shadowTreeElements(disclosedShadowRoot(h, opts)) = {}
    /\ (Returned("focusable") /\ opts.getShadowRoot # "off") =>
           \A h \in blockedHosts :
               \A e \in SeqToSet(children(disclosedShadowRoot(h, opts))) :
                   (matchesCandidateSelector(e)
                        /\ isNodeMatchingSelectorFocusable(opts, e))
                       => e \in ResultSet

\* tabbable returned nothing from the shadow tree of a negative-tabindex host
\* although the tree holds an element that is tabbable on its own
C8_Witness ==
    /\ Returned("tabbable")
    /\ opts.getShadowRoot # "off"
    /\ \E h \in blockedHosts :
          \E e \in shadowTreeElements(disclosedShadowRoot(h, opts)) :
              /\ matchesCandidateSelector(e)
              /\ isNodeMatchingSelectorTabbable(opts, e)
              /\ e \notin ResultSet

----------------------------------------------------------------------------
(* C7, C10 *)

RECURSIVE attachedToDocument(_)
\* n belongs to the document: climbing parents, and hosts at shadow roots,
\* ends at the document
attachedToDocument(n) ==
    IF n = DOC THEN TRUE
    ELSE IF n \notin Nodes THEN FALSE
    ELSE IF IsShadowRoot(n) THEN attachedToDocument(dom[n].host)
    ELSE attachedToDocument(parentNode(n))

\* nothing but the display check can keep n out of the focusable results
focusableApartFromDisplay(n) ==
    /\ matchesCandidateSelector(n)
    /\ ~dom[n].disabled
    /\ ~dom[n].inert
    /\ ~isHiddenInput(n)
    /\ ~isDetailsWithSummary(n)
    /\ ~isDisabledFromFieldset(n)

\* the upward walk from n (assigned slot, else host at a shadow root, else
\* parent) meets a node whose parent element reports an undisclosed shadow
hasUndisclosedShadowAncestor(n) == isHiddenWalk(n) # NULL

\* C7: for a candidate whose visibility is not hidden, not under a closed
\* details and with no undisclosed-shadow ancestor: under 'non-zero-area' it
\* is excluded exactly when its bounding box is zero by zero, attached or
\* not; under 'full' or unset a node not attached to the document is
\* excluded; under 'legacy-full' the same detached node is included.
C7_DisplayCheckModes ==
    (/\ Returned("isFocusable")
     /\ focusableApartFromDisplay(target)
     /\ ~dom[target].visibilityHidden
     /\ ~underClosedDetailsSel(target)
     /\ ~hasUndisclosedShadowAncestor(target))
    => /\ opts.displayCheck = "non-zero-area" => result.bool = ~dom[target].zeroArea
       /\ (opts.displayCheck \in {"full", "unset"} /\ ~attachedToDocument(target))
              => result.bool = FALSE
       /\ (opts.displayCheck = "legacy-full" /\ ~attachedToDocument(target))
              => result.bool = TRUE

\* a button in a nested shadow tree of a detached host was found focusable
\* under 'legacy-full'
C7_Witness ==
    /\ Returned("isFocusable")
    /\ opts.displayCheck = "legacy-full"
    /\ IsShadowRoot(getRootNode(target))
    /\ ~attachedToDocument(target)
    /\ ~hasUndisclosedShadowAncestor(target)
    /\ result.bool = TRUE

\* C10: in 'full', 'legacy-full' or unset mode with getShadowRoot a function,
\* when the upward walk from N meets a node whose parent element reports an
\* undisclosed shadow root, isHidden(N) is the zero-area check of the
\* original node N, not of the node at which the walk stopped (seen through
\* isFocusable of a node that nothing else excludes).
C10_ZeroAreaOfOriginalNode ==
    (/\ Returned("isFocusable")
     /\ focusableApartFromDisplay(target)
     /\ opts.displayCheck \in {"unset", "full", "legacy-full"}
     /\ opts.getShadowRoot = "fn"
     /\ ~dom[target].visibilityHidden
     /\ ~underClosedDetailsSel(target)
     /\ hasUndisclosedShadowAncestor(target))
    => result.bool = ~dom[target].zeroArea

----------------------------------------------------------------------------
(* C5 *)

\* the radio button group of radio m: same name, same form owner, same tree
radioGroup(m) ==
    {r \in Nodes : /\ IsElement(r)
                   /\ dom[r].tag = "INPUT" /\ dom[r].type = "radio"
                   /\ dom[r].name = dom[m].name
                   /\ dom[r].form = dom[m].form
                   /\ getRootNode(r) = getRootNode(m)}

\* the elements a list query over container c can collect
collectedBelow(c, options) ==
    IF options.getShadowRoot = "off" THEN SeqToSet(descendants(c))
    ELSE shadowIncludingDescendants(c)

\* the radios below the target whose whole group lies below the target and
\* whose group lookup is a well-formed selector
groupedRadios ==
    {m \in collectedBelow(target, opts) :
        /\ dom[m].tag = "INPUT" /\ dom[m].type = "radio"
        /\ radioGroup(m) \subseteq collectedBelow(target, opts)
        /\ (cssEscape \/ rawSelectorParses(dom[m].name))}

\* C5: among radios that nothing else excludes, sharing a non-empty name and
\* the same owning form (or, with no form, the same root): when a member is
\* checked, tabbable over their container includes the checked member and no
\* other member, and focusable includes every member; when no member is
\* checked, or the radio has no name, every member is tabbable.
C5_RadioGroups ==
    /\ Returned("tabbable") =>
           \A m \in groupedRadios :
               (/\ matchesCandidateSelector(m)
                /\ isNodeMatchingSelectorFocusable(opts, m)
                /\ getTabindex(m, FALSE) >= 0)
               => (m \in ResultSet <=>
                       \/ dom[m].name = ""
                       \/ dom[m].checked
                       \/ \A r \in radioGroup(m) : ~dom[r].checked)
    /\ Returned("focusable") =>
           \A m \in groupedRadios :
               (matchesCandidateSelector(m) /\ isNodeMatchingSelectorFocusable(opts, m))
               => m \in ResultSet

----------------------------------------------------------------------------
(* C6 *)

isFormControl(n) == dom[n].tag \in {"INPUT", "BUTTON", "SELECT", "TEXTAREA"}

disabledFieldsetsAbove(n) ==
    {a \in elementAncestors(n) : dom[a].tag = "FIELDSET" /\ dom[a].disabled}

\* the innermost disabled fieldset around n
nearestDisabledFieldset(n) ==
    CHOOSE a \in disabledFieldsetsAbove(n) :
        \A b \in disabledFieldsetsAbove(n) : b = a \/ b \in elementAncestors(a)

\* the first LEGEND child of fieldset f, in tree order, or NULL
firstLegendChild(f) ==
    LET legends == {c \in SeqToSet(children(f)) : dom[c].tag = "LEGEND"}
    IN  IF legends = {} THEN NULL
        ELSE CHOOSE c \in legends :
                 \A o \in legends : documentPosition(c) <= documentPosition(o)

\* what the claim says a disabled fieldset does to n
excludedByFieldset(n) ==
    /\ isFormControl(n)
    /\ disabledFieldsetsAbove(n) # {}
    /\ ~ (/\ firstLegendChild(nearestDisabledFieldset(n)) \in elementAncestors(n)
          /\ disabledFieldsetsAbove(nearestDisabledFieldset(n)) = {})

\* nothing but a fieldset can keep n out of the focusable results
focusableApartFromFieldset(n, options) ==
    /\ matchesCandidateSelector(n)
    /\ ~dom[n].disabled
    /\ ~dom[n].inert
    /\ ~isHiddenInput(n)
    /\ ~isHidden(n, options)
    /\ ~isDetailsWithSummary(n)

\* C6: a form control with a disabled fieldset ancestor is excluded from the
\* tabbable and the focusable results, unless it is a descendant of the
\* first legend child of its innermost disabled fieldset and that fieldset
\* is not nested in another disabled fieldset, in which case (nothing else
\* excluding it) it is included in both; a node that is not a form control
\* is never excluded by a disabled fieldset.
C6_DisabledFieldset ==
    /\ Returned("focusable") =>
           \A n \in SeqToSet(descendants(target)) :
               focusableApartFromFieldset(n, opts)
               => (n \in ResultSet <=> ~excludedByFieldset(n))
    /\ Returned("tabbable") =>
           \A n \in SeqToSet(descendants(target)) :
               (/\ focusableApartFromFieldset(n, opts)
                /\ getTabindex(n, FALSE) >= 0
                /\ ~isNonTabbableRadio(n))
               => (n \in ResultSet <=> ~excludedByFieldset(n))

\* focusable kept a control in the first legend of a disabled fieldset and
\* dropped a control in a later legend of the same fieldset
C6_Witness ==
    /\ Returned("focusable")
    /\ \E a, b \in SeqToSet(descendants(target)) :
          /\ isFormControl(a) /\ isFormControl(b)
          /\ disabledFieldsetsAbove(a) # {} /\ disabledFieldsetsAbove(b) # {}
          /\ nearestDisabledFieldset(a) = nearestDisabledFieldset(b)
          /\ a \in ResultSet
          /\ b \notin ResultSet
          /\ dom[parentElement(b)].tag = "LEGEND"

----------------------------------------------------------------------------
(* C11 *)

RECURSIVE orderedAtAnyDepth(_)
\* every sortable record some call of sortByOrder puts in its ordered
\* bucket while sorting `candidates`: the top-level call and the recursive
\* calls on the candidates of each scope
orderedAtAnyDepth(candidates) ==
    SeqToSet(orderedTabbables(candidates))
    \cup UNION {orderedAtAnyDepth(candidates[i].candidates) :
                  i \in {k \in 1..Len(candidates) : candidates[k].isScope}}

\* C11: in every call of tabbable(C, O), every item (element, slot scope or
\* shadow-host scope, at any nesting depth) that sortByOrder places in its
\* ordered bucket has an effective tab index strictly greater than 0, so no
\* element is emitted ahead of positive-tabindex elements because of a
\* negative tab index.
C11_OrderedBucketIsPositive ==
    Returned("tabbable") =>
        \A r \in orderedAtAnyDepth(tabbableCandidates(target, opts)) :
            r.tabIndex > 0

----------------------------------------------------------------------------
(* C12 *)

\* the node's native tab index: its tabIndex property
nativeTabIndex(n) == dom[n].tabIndex

\* the effective tab index the claim describes, `unauthored` saying when the
\* node counts as having no tabindex attribute authored
claimedTabIndex(n, isScope, unauthored) ==
    IF /\ nativeTabIndex(n) < 0
       /\ \/ dom[n].tag \in {"AUDIO", "VIDEO", "DETAILS"}
          \/ isContentEditable(n)
          \/ isScope
       /\ unauthored
    THEN 0
    ELSE nativeTabIndex(n)

----------------------------------------------------------------------------
(* C13 *)

\* the tree holds no shadow root and no slot element
noShadowRootsNoSlots ==
    \A n \in Nodes : ~IsShadowRoot(n) /\ dom[n].tag # "SLOT"

\* the options of the same call with shadow support left off
withoutShadowSupport(options) == [options EXCEPT !.getShadowRoot = "off"]

\* C13: on a tree without shadow roots and slot elements, for every container
\* (inert, under an inert ancestor, or neither) and every includeContainer
\* and displayCheck, tabbable(C, {getShadowRoot: true}) returns the same
\* ordered list as tabbable(C, {}), and focusable(C, {getShadowRoot: true})
\* the same ordered list as focusable(C, {}).
C13_CollectorsInterchangeable ==
    (opts.getShadowRoot = "true" /\ noShadowRootsNoSlots) =>
        /\ Returned("tabbable") =>
               result.list = tabbable(target, withoutShadowSupport(opts))
        /\ Returned("focusable") =>
               result.list = focusable(target, withoutShadowSupport(opts))

\* the iterative collector returned the container itself followed by
\* descendants from two levels below it
C13_Witness ==
    /\ Returned("focusable")
    /\ opts.getShadowRoot = "true"
    /\ noShadowRootsNoSlots
    /\ opts.includeContainer
    /\ Len(result.list) >= 3
    /\ result.list[1] = target
    /\ \E e \in ResultSet : parentElement(e) # target /\ e # target

----------------------------------------------------------------------------
(* C14 *)

RECURSIVE acceptedElements(_)
\* the elements the collector accepted, at any depth of the scope structure,
\* in the order it pushed them
acceptedElements(items) ==
    FlatSeq([i \in 1..Len(items) |->
                IF items[i].isScope THEN acceptedElements(items[i].candidates)
                ELSE <<items[i].node>>])

\* how often e occurs in list
occurrences(list, e) == Cardinality({i \in 1..Len(list) : list[i] = e})

isPermutation(a, b) == \A e \in Nodes : occurrences(a, e) = occurrences(b, e)

noDuplicates(list) == \A e \in Nodes : occurrences(list, e) <= 1

\* C14: tabbable(C, O) is a permutation of the elements the collector
\* accepted (at any depth of the scope structure, or the filtered flat list):
\* sorting and flattening neither drop nor duplicate an element; and no
\* element occurs twice in tabbable(C, O) or in focusable(C, O), also when a
\* light child of a host is reachable through the host and through a slot.
C14_PermutationWithoutDuplicates ==
    /\ Returned("tabbable") =>
           /\ isPermutation(result.list,
                            acceptedElements(tabbableCandidates(target, opts)))
           /\ noDuplicates(result.list)
    /\ Returned("focusable") => noDuplicates(result.list)

\* tabbable returned a slotted light child of a host, collected in a slot
\* scope nested in the host's scope, together with an element of the shadow
\* tree and elements outside the host, and sorting changed their order
C14_Witness ==
    /\ Returned("tabbable")
    /\ opts.getShadowRoot # "off"
    /\ \E e \in ResultSet : dom[e].slot # NULL /\ attachedShadow(parentElement(e)) # NULL
    /\ \E e \in ResultSet : IsShadowRoot(getRootNode(e))
    /\ \E e \in ResultSet : getRootNode(e) = DOC /\ dom[e].slot = NULL
    /\ result.list # acceptedElements(tabbableCandidates(target, opts))

=============================================================================
